---- MODULE Spec2Model ----
(***************************************************************************)
(* Model of MultiValidatorManager                                          *)
(* (src/proxy_server/managers/multi_validator_manager.py): the report      *)
(* store, the recency-window query, the field consensus calculator, the    *)
(* report confidence scorer, the consensus cache and the read API.         *)
(*                                                                         *)
(* Time is counted in ticks, TicksPerSecond ticks to the second.  Floats   *)
(* are exact: a confidence is an integer number of hundredths, a computed  *)
(* average is a reduced fraction <<num, den>>.  Payload values are tagged  *)
(* with their Python type.  A payload (a dict) is the sequence of its      *)
(* <<key, value>> pairs in insertion order.                                *)
(***************************************************************************)
EXTENDS Integers, Sequences, FiniteSets, TLC

VARIABLES
    now,                 \* datetime.now()
    validator_reports,   \* collection 'validator_reports': doc id -> report
    miner_status,        \* collection 'miner_status': uid -> last-touch record
    miner_consensus,     \* collection 'miner_consensus': uid -> consensus record
    consensus_cache,     \* self.consensus_cache: uid -> consensus_status
    last_cache_update,   \* self.last_cache_update
    cache_put_time,      \* history: when consensus_cache[uid] was last assigned
    frame,               \* the receive_validator_report call in progress
    result,              \* what the last finished operation returned
    advances,            \* number of clock advances so far
    calls,               \* number of receive_validator_report calls so far
    faults,              \* number of store calls that raised so far
    workers,             \* the handlers running concurrently (SpecConc only)
    calc                 \* input and output of the calculator (SpecCalc only)

vars == <<now, validator_reports, miner_status, miner_consensus,
          consensus_cache, last_cache_update, cache_put_time, frame, result,
          advances, calls, faults, workers, calc>>

-----------------------------------------------------------------------------
(* Bounds of the model *)

TicksPerSecond == 2
MaxAdvances == 1
MaxCalls == 2
MaxBatch == 2
MaxFaults == 1
MaxConcCalls == 3

(* Configuration set by __init__ *)

min_consensus_validators == 2
ConsensusTimeoutMinutes == 5
CacheTtlMinutes == 1

consensus_timeout == ConsensusTimeoutMinutes * 60 * TicksPerSecond
cache_ttl == CacheTtlMinutes * 60 * TicksPerSecond

-----------------------------------------------------------------------------
(* Values *)

IntV(n) == [t |-> "int", v |-> n]
StrV(s) == [t |-> "str", v |-> s]
BoolV(b) == [t |-> "bool", v |-> b]
FloatV(f) == [t |-> "float", v |-> f]
TimeV(ts) == [t |-> "isotime", v |-> ts]

RECURSIVE Gcd(_, _)
Gcd(a, b) == IF b = 0 THEN a ELSE Gcd(b, a % b)

\* the exact quotient n / d (d > 0, n >= 0) as a reduced fraction
Frac(n, d) == LET g == Gcd(n, d) IN <<n \div g, d \div g>>

Min(a, b) == IF a <= b THEN a ELSE b
Max(a, b) == IF a >= b THEN a ELSE b

RECURSIVE SumSeq(_)
SumSeq(s) == IF s = <<>> THEN 0 ELSE Head(s) + SumSeq(Tail(s))

RECURSIVE AscendingSeq(_)
AscendingSeq(ids) ==
    IF ids = {} THEN <<>>
    ELSE LET first == CHOOSE a \in ids : \A b \in ids : a <= b
         IN  <<first>> \o AscendingSeq(ids \ {first})

(* dict access on a payload *)

Keys(d) == {d[i][1] : i \in DOMAIN d}
HasKey(d, k) == k \in Keys(d)
Get(d, k) == d[CHOOSE i \in DOMAIN d : d[i][1] = k][2]

\* an item of the batch that is not a mapping at all (None, a string, ...)
NotADict == <<<<"__not_a_dict__", BoolV(TRUE)>>>>
IsDict(d) == d # NotADict

-----------------------------------------------------------------------------
(* Report Confidence Scorer: _calculate_validator_confidence *)

required_fields == <<"uid", "hotkey", "stake", "is_serving">>
detailed_fields == <<"performance_score", "current_load", "task_type_specialization">>

CountMissing(d, fs) == Cardinality({i \in DOMAIN fs : ~HasKey(d, fs[i])})
CountPresent(d, fs) == Cardinality({i \in DOMAIN fs : HasKey(d, fs[i])})

\* the bonus for recent data; a last_seen that fromisoformat rejects adds 0
FreshnessBonus(d, t) ==
    IF ~HasKey(d, "last_seen") THEN 0
    ELSE LET ls == Get(d, "last_seen") IN
         IF ls.t # "isotime" THEN 0
         ELSE IF t - ls.v < 5 * 60 * TicksPerSecond THEN 10
         ELSE IF t - ls.v < 15 * 60 * TicksPerSecond THEN 5
         ELSE 0

\* faulty variant: the result is not clamped
_calculate_validator_confidence_Unclamped(validator_uid, d, t) ==
    100 - CountMissing(d, required_fields) * 10
        + CountPresent(d, detailed_fields) * 5
        + FreshnessBonus(d, t)

\* faulty variant: a payload that lacks a required field scores 0
_calculate_validator_confidence_ZeroWhenIncomplete(validator_uid, d, t) ==
    IF CountMissing(d, required_fields) > 0 THEN 0
    ELSE Min(100, 100 + CountPresent(d, detailed_fields) * 5
                      + FreshnessBonus(d, t))

\* in hundredths
_calculate_validator_confidence(validator_uid, d, t) ==
    LET confidence == 100 - CountMissing(d, required_fields) * 10
                          + CountPresent(d, detailed_fields) * 5
                          + FreshnessBonus(d, t)
    IN  Max(10, Min(100, confidence))

ValidatorReport(validator_uid, miner_uid, timestamp, epoch, d, confidence_score) ==
    [validator_uid |-> validator_uid, miner_uid |-> miner_uid,
     timestamp |-> timestamp, epoch |-> epoch, miner_status |-> d,
     confidence_score |-> confidence_score]

-----------------------------------------------------------------------------
(* Report Store: _store_validator_report *)

\* strftime('%Y%m%d_%H%M%S'): the timestamp truncated to the second
StrfSeconds(ts) == ts \div TicksPerSecond

\* f"{validator_uid}_{miner_uid}_{strftime}"
DocId(report) ==
    <<report.validator_uid, report.miner_uid, StrfSeconds(report.timestamp)>>

\* document(id).set(data): creates the document or replaces it
DocSet(coll, id, data) ==
    [k \in DOMAIN coll \cup {id} |-> IF k = id THEN data ELSE coll[k]]

\* firestore.Increment(1) under merge=True
IncrementCount(coll, id) ==
    IF id \in DOMAIN coll THEN coll[id].validator_reports_count + 1 ELSE 1

\* fault names the store call that raises, if any.  Yields the two
\* collections afterwards and whether the exception is re-raised (line 169).
_store_validator_report(reports, touch, report, fault) ==
    IF fault = "report_set"
    THEN [validator_reports |-> reports, miner_status |-> touch, raised |-> TRUE]
    ELSE LET reports2 == DocSet(reports, DocId(report), report) IN
         IF fault = "touch_set"
         THEN [validator_reports |-> reports2, miner_status |-> touch,
               raised |-> TRUE]
         ELSE [validator_reports |-> reports2,
               miner_status |-> DocSet(touch, report.miner_uid,
                   [last_updated |-> report.timestamp,
                    last_reported_by_validator |-> report.validator_uid,
                    epoch |-> report.epoch,
                    validator_reports_count |->
                        IncrementCount(touch, report.miner_uid)]),
               raised |-> FALSE]

-----------------------------------------------------------------------------
(* Recency Window Query: _get_recent_miner_reports *)

\* the store streams documents in ascending document id
DocLess(a, b) ==
    \/ a[1] < b[1]
    \/ a[1] = b[1] /\ a[2] < b[2]
    \/ a[1] = b[1] /\ a[2] = b[2] /\ a[3] < b[3]

RECURSIVE StreamOrder(_)
StreamOrder(ids) ==
    IF ids = {} THEN <<>>
    ELSE LET first == CHOOSE a \in ids : \A b \in ids \ {a} : DocLess(a, b)
         IN  <<first>> \o StreamOrder(ids \ {first})

\* faulty variant: a report exactly as old as the window is left out
InWindow_Strict(report, t) == report.timestamp > t - consensus_timeout

\* line 226, with the cutoff of line 212
InWindow(report, t) == report.timestamp >= t - consensus_timeout

\* faulty variant: the window is handed over in ascending epoch
_get_recent_miner_reports_ByEpoch(reports, miner_uid, t, fault) ==
    IF fault = "query" THEN <<>>
    ELSE LET ids == {id \in DOMAIN reports :
                        /\ reports[id].miner_uid = miner_uid
                        /\ InWindow(reports[id], t)}
             order == StreamOrder(ids)
             n == Len(order)
             p == CHOOSE q \in Permutations(1..n) :
                      \A i, j \in 1..n :
                          i < j => \/ reports[order[q[i]]].epoch
                                        < reports[order[q[j]]].epoch
                                   \/ /\ reports[order[q[i]]].epoch
                                            = reports[order[q[j]]].epoch
                                      /\ q[i] < q[j]
         IN  [i \in 1..n |-> reports[order[p[i]]]]

\* lines 208-233
_get_recent_miner_reports(reports, miner_uid, t, fault) ==
    IF fault = "query" THEN <<>>
    ELSE LET ids == {id \in DOMAIN reports :
                        /\ reports[id].miner_uid = miner_uid
                        /\ InWindow(reports[id], t)}
             order == StreamOrder(ids)
         IN  [i \in 1..Len(order) |-> reports[order[i]]]

-----------------------------------------------------------------------------
(* Field Consensus Calculator *)

numeric_fields == {"stake", "performance_score", "current_load"}
categorical_fields == {"is_serving", "hotkey"}

\* the indices of the reports whose payload includes the field, ascending
RECURSIVE WithField(_, _, _)
WithField(reports, fld, i) ==
    IF i > Len(reports) THEN <<>>
    ELSE (IF HasKey(reports[i].miner_status, fld) THEN <<i>> ELSE <<>>)
         \o WithField(reports, fld, i + 1)

FieldValues(reports, fld) ==
    LET idx == WithField(reports, fld, 1)
    IN  [j \in 1..Len(idx) |-> Get(reports[idx[j]].miner_status, fld)]

FieldWeights(reports, fld) ==
    LET idx == WithField(reports, fld, 1)
    IN  [j \in 1..Len(idx) |-> reports[idx[j]].confidence_score]

\* v * w raises TypeError unless v is a number (bool is an int in Python)
IsNumber(val) == val.t \in {"int", "bool"}
NumberOf(val) == IF val.t = "bool" THEN (IF val.v THEN 1 ELSE 0) ELSE val.v

\* faulty variant: the weights are ignored
_weighted_average_Unweighted(values, weights) ==
    IF values = <<>> \/ weights = <<>> THEN <<0, 1>>
    ELSE Frac(SumSeq([i \in DOMAIN values |-> NumberOf(values[i])]),
              Len(values))

\* faulty variant: weights that sum to zero give 0
_weighted_average_ZeroOnZeroWeight(values, weights) ==
    IF values = <<>> \/ weights = <<>> THEN <<0, 1>>
    ELSE LET total_weight == SumSeq(weights) IN
         IF total_weight = 0 THEN <<0, 1>>
         ELSE Frac(SumSeq([i \in DOMAIN values |->
                              NumberOf(values[i]) * weights[i]]),
                   total_weight)

\* values are tagged numbers, weights are hundredths; the result is exact
_weighted_average(values, weights) ==
    IF values = <<>> \/ weights = <<>> THEN <<0, 1>>
    ELSE LET total_weight == SumSeq(weights) IN
         IF total_weight = 0
         THEN Frac(SumSeq([i \in DOMAIN values |-> NumberOf(values[i])]),
                   Len(values))
         ELSE Frac(SumSeq([i \in DOMAIN values |->
                              NumberOf(values[i]) * weights[i]]),
                   total_weight)

\* value_counts[value]: the summed weight of the value
ValueCount(values, weights, val) ==
    SumSeq([i \in DOMAIN values |-> IF values[i] = val THEN weights[i] ELSE 0])

\* faulty variant: a threshold of 30%
_majority_vote_Threshold30(values, weights) ==
    IF values = <<>> THEN <<"None", FALSE>>
    ELSE LET total_weight == SumSeq(weights)
             reaches(i) == ValueCount(values, weights, values[i]) * 10
                               >= total_weight * 3
             winners == {i \in DOMAIN values : reaches(i)}
         IN  IF winners # {}
             THEN <<values[CHOOSE i \in winners : \A j \in winners : i <= j],
                    FALSE>>
             ELSE <<values[1], TRUE>>

\* faulty variant: a threshold of 70%
_majority_vote_Threshold70(values, weights) ==
    IF values = <<>> THEN <<"None", FALSE>>
    ELSE LET total_weight == SumSeq(weights)
             reaches(i) == ValueCount(values, weights, values[i]) * 10
                               >= total_weight * 7
             winners == {i \in DOMAIN values : reaches(i)}
         IN  IF winners # {}
             THEN <<values[CHOOSE i \in winners : \A j \in winners : i <= j],
                    FALSE>>
             ELSE <<values[1], TRUE>>

\* yields <<value, conflict>>; the dict is scanned in first-seen order
_majority_vote(values, weights) ==
    IF values = <<>> THEN <<"None", FALSE>>
    ELSE LET total_weight == SumSeq(weights)
             \* count >= total_weight * 0.6
             reaches(i) == ValueCount(values, weights, values[i]) * 10
                               >= total_weight * 6
             winners == {i \in DOMAIN values : reaches(i)}
         IN  IF winners # {}
             THEN <<values[CHOOSE i \in winners : \A j \in winners : i <= j],
                    FALSE>>
             ELSE <<values[1], TRUE>>

MaxOfSeq(s) == CHOOSE x \in {s[i] : i \in DOMAIN s} :
                   \A i \in DOMAIN s : s[i] <= x

\* zip(reports, weights) pairs the i-th report of the whole window with the
\* i-th weight of the reports that include the field
_most_recent_high_confidence(values, weights, reports) ==
    IF values = <<>> \/ reports = <<>> THEN "None"
    ELSE LET max_confidence == MaxOfSeq(weights)
             high == {i \in 1..Min(Len(reports), Len(weights)) :
                         weights[i] * 10 >= max_confidence * 8}
         IN  IF high # {}
             THEN LET \* max(..., key=timestamp) keeps the first maximum
                      mr == CHOOSE i \in high :
                              /\ \A j \in high :
                                   reports[j].timestamp <= reports[i].timestamp
                              /\ \A j \in high :
                                   reports[j].timestamp = reports[i].timestamp
                                       => i <= j
                      most_recent == reports[mr]
                  IN  \* .get(list(keys())[0])
                      most_recent.miner_status[1][2]
             ELSE values[1]

\* faulty variant: the sum is not capped at 1.0
_calculate_overall_confidence_Uncapped(reports) ==
    IF reports = <<>> THEN <<0, 1>>
    ELSE LET total == SumSeq([i \in DOMAIN reports |->
                                 reports[i].confidence_score])
             n == Len(reports)
             validator_bonus ==
                 Min(20, Cardinality({reports[i].validator_uid :
                                         i \in DOMAIN reports}) * 10)
         IN  Frac(total + validator_bonus * n, n)

\* faulty variant: 0.1 is deducted for every field in conflict
_calculate_overall_confidence_ConflictPenalty(reports) ==
    IF reports = <<>> THEN <<0, 1>>
    ELSE LET total == SumSeq([i \in DOMAIN reports |->
                                 reports[i].confidence_score])
             n == Len(reports)
             validator_bonus ==
                 Min(20, Cardinality({reports[i].validator_uid :
                                         i \in DOMAIN reports}) * 10)
             conflict_penalty ==
                 10 * Cardinality({fld \in categorical_fields :
                         /\ FieldValues(reports, fld) # <<>>
                         /\ _majority_vote(FieldValues(reports, fld),
                                           FieldWeights(reports, fld))[2]})
         IN  IF total + (validator_bonus - conflict_penalty) * n >= 100 * n
             THEN <<100, 1>>
             ELSE Frac(total + (validator_bonus - conflict_penalty) * n, n)

\* in hundredths, exact
_calculate_overall_confidence(reports) ==
    IF reports = <<>> THEN <<0, 1>>
    ELSE LET total == SumSeq([i \in DOMAIN reports |->
                                 reports[i].confidence_score])
             n == Len(reports)
             validator_bonus ==
                 Min(20, Cardinality({reports[i].validator_uid :
                                         i \in DOMAIN reports}) * 10)
             conflict_penalty == 0
         IN  \* min(1.0, avg_confidence + validator_bonus - conflict_penalty)
             IF total + (validator_bonus - conflict_penalty) * n >= 100 * n
             THEN <<100, 1>>
             ELSE Frac(total + (validator_bonus - conflict_penalty) * n, n)

\* faulty variant: one entry per report
FirstSeen_PerReport(reports, i) ==
    [j \in 1..(Len(reports) - i + 1) |-> reports[j + i - 1].validator_uid]

\* list(validator_reports.keys()): validators in order of first appearance
RECURSIVE FirstSeen(_, _)
FirstSeen(reports, i) ==
    IF i > Len(reports) THEN <<>>
    ELSE (IF \E j \in 1..(i - 1) :
                 reports[j].validator_uid = reports[i].validator_uid
          THEN <<>> ELSE <<reports[i].validator_uid>>)
         \o FirstSeen(reports, i + 1)

AllFields(reports) ==
    UNION {Keys(reports[i].miner_status) : i \in DOMAIN reports}

\* whether the per-field loop raises (caught at line 304)
CalcRaises(reports) ==
    \E fld \in AllFields(reports) \cap numeric_fields :
        \E i \in DOMAIN reports :
            /\ HasKey(reports[i].miner_status, fld)
            /\ ~IsNumber(Get(reports[i].miner_status, fld))

metadata_keys == {"consensus_timestamp", "consensus_validators",
                  "consensus_confidence", "conflicts_detected"}

\* the conflicts list, in the order in which the loop over the set
\* all_fields meets the categorical fields
RECURSIVE Conflicts(_, _)
Conflicts(reports, field_order) ==
    IF field_order = <<>> THEN <<>>
    ELSE LET fld == Head(field_order)
             vote == _majority_vote(FieldValues(reports, fld),
                                    FieldWeights(reports, fld))
         IN  (IF fld \in AllFields(reports) /\ vote[2]
              THEN <<<<fld, BoolV(vote[2])>>>> ELSE <<>>)
             \o Conflicts(reports, Tail(field_order))

FieldConsensus(reports, fld) ==
    IF fld \in numeric_fields
    THEN FloatV(_weighted_average(FieldValues(reports, fld),
                                  FieldWeights(reports, fld)))
    ELSE IF fld \in categorical_fields
    THEN _majority_vote(FieldValues(reports, fld),
                        FieldWeights(reports, fld))[1]
    ELSE _most_recent_high_confidence(FieldValues(reports, fld),
                                      FieldWeights(reports, fld), reports)

EmptyDict == <<>>

\* field_order: the iteration order of the set all_fields over the
\* categorical fields.  Yields the consensus_status dict.
_calculate_consensus_status(miner_uid, reports, t, field_order) ==
    IF reports = <<>> THEN EmptyDict
    ELSE IF CalcRaises(reports) THEN EmptyDict
    ELSE [k \in AllFields(reports) \cup metadata_keys |->
            IF k = "consensus_timestamp" THEN t
            ELSE IF k = "consensus_validators" THEN FirstSeen(reports, 1)
            ELSE IF k = "consensus_confidence"
                 THEN _calculate_overall_confidence(reports)
            ELSE IF k = "conflicts_detected"
                 THEN Conflicts(reports, field_order)
            ELSE FieldConsensus(reports, k)]

FieldOrders == {<<"is_serving", "hotkey">>, <<"hotkey", "is_serving">>}

-----------------------------------------------------------------------------
(* Consensus recomputation: _update_miner_consensus *)

\* str(miner_uid) is one-to-one on integers: the document key of an entity
\* is modelled by the uid itself
ConsensusRecord(miner_uid, consensus_status, t, n) ==
    [miner_uid |-> miner_uid,
     consensus_status |-> consensus_status,
     last_consensus |-> t,
     validator_reports_count |-> n,
     \* consensus_status.get('confidence', 0.0)
     consensus_confidence |->
         IF "confidence" \in DOMAIN consensus_status
         THEN consensus_status["confidence"] ELSE <<0, 1>>]

\* a map written under merge=True: the keys of the new map are set, the
\* other keys of the stored map stay; an empty map replaces the stored one
MergeMap(old, new) ==
    IF new = EmptyDict THEN EmptyDict
    ELSE [k \in DOMAIN old \cup DOMAIN new |->
             IF k \in DOMAIN new THEN new[k] ELSE old[k]]

\* consensus_ref.set({...}, merge=True), lines 190-197: every top-level
\* field is given, the map consensus_status is merged key by key
ConsensusSet(consensus, miner_uid, rec) ==
    IF miner_uid \in DOMAIN consensus
    THEN DocSet(consensus, miner_uid,
                [rec EXCEPT !.consensus_status =
                    MergeMap(consensus[miner_uid].consensus_status, @)])
    ELSE DocSet(consensus, miner_uid, rec)

\* faulty variant: the threshold off by one
InsufficientReports_OffByOne(recent_reports) ==
    Len(recent_reports) < min_consensus_validators - 1

\* line 182
InsufficientReports(recent_reports) ==
    Len(recent_reports) < min_consensus_validators

\* Yields the consensus collection, the cache, the cache history and the
\* returned number of updates.  fault "query" makes the window query raise
\* (swallowed at line 231), fault "consensus_set" the write at line 191.
_update_miner_consensus(reports, consensus, cache, put_time, miner_uid, t, fault, field_order) ==
    LET recent_reports == _get_recent_miner_reports(reports, miner_uid, t, fault)
        unchanged == [miner_consensus |-> consensus, consensus_cache |-> cache,
                      cache_put_time |-> put_time, updated |-> 0]
    IN  IF InsufficientReports(recent_reports) THEN unchanged
        ELSE IF fault = "consensus_set" THEN unchanged
        ELSE LET consensus_status ==
                     _calculate_consensus_status(miner_uid, recent_reports, t,
                                                 field_order)
             IN  [miner_consensus |->
                      ConsensusSet(consensus, miner_uid,
                             ConsensusRecord(miner_uid, consensus_status, t,
                                             Len(recent_reports))),
                  consensus_cache |-> DocSet(cache, miner_uid, consensus_status),
                  cache_put_time |-> DocSet(put_time, miner_uid, t),
                  updated |-> 1]

-----------------------------------------------------------------------------
(* Inputs *)

Validators == {1, 2}
Miners == {0, 1}

\* validator 1 reports every required field, validator 2 omits is_serving
PayloadA(u) == <<<<"uid", IntV(u)>>, <<"hotkey", StrV("hkA")>>,
                 <<"stake", IntV(100)>>, <<"is_serving", BoolV(TRUE)>>>>
PayloadB(u) == <<<<"uid", IntV(u)>>, <<"hotkey", StrV("hkB")>>,
                 <<"stake", IntV(120)>>>>
PayloadNoUid == <<<<"hotkey", StrV("hkA")>>, <<"stake", IntV(100)>>>>

Items(v) == {IF v = 1 THEN PayloadA(u) ELSE PayloadB(u) : u \in Miners}
            \cup {PayloadNoUid, NotADict}

\* the caller's round counter
EpochOfCall(n) == n + 1

StoreFaults == {"none", "report_set", "touch_set", "query", "consensus_set"}

\* half a second, the cache TTL, the recency window, and just beyond it
AdvanceSteps == {1, cache_ttl, consensus_timeout, consensus_timeout + 1}

-----------------------------------------------------------------------------
(* receive_validator_report.  The list miner_statuses is read one item per *)
(* loop iteration; the model draws each item when the loop reaches it.     *)
(* The frame keeps the locals of the call and, as history, the item and    *)
(* the store fault of the last iteration, the number of reports written to *)
(* validator_reports by this call (appended) and the sum of the last-touch *)
(* counters when the call began (touch0).                                  *)

NoItem == <<>>

IdleFrame == [pc |-> "idle", validator_uid |-> 0, epoch |-> 0, len |-> 0,
              i |-> 0, item |-> NoItem, fault |-> "none",
              processed_count |-> 0, consensus_updated |-> 0,
              appended |-> 0, touch0 |-> 0]

TotalTouch(touch) ==
    SumSeq([j \in 1..Cardinality(DOMAIN touch) |->
               LET ids == AscendingSeq(DOMAIN touch)
               IN  touch[ids[j]].validator_reports_count])

NoResult == [op |-> "none"]

InLoop == frame.pc = "loop" /\ frame.i < frame.len

\* lines 88-94
\* faulty variant: the counters go on from the last summary
ReceiveBegin_KeepsCounters(validator_uid, len, epoch) ==
    /\ frame.pc = "idle"
    /\ calls < MaxCalls
    /\ calls' = calls + 1
    /\ LET kept == result.op = "receive" /\ result.success
       IN  frame' = [pc |-> "loop", validator_uid |-> validator_uid,
                     epoch |-> epoch, len |-> len, i |-> 0, item |-> NoItem,
                     fault |-> "none",
                     processed_count |->
                         IF kept THEN result.miners_processed ELSE 0,
                     consensus_updated |->
                         IF kept THEN result.consensus_updated ELSE 0,
                     appended |-> 0,
                     touch0 |-> TotalTouch(miner_status)]
    /\ result' = NoResult
    /\ UNCHANGED <<now, validator_reports, miner_status, miner_consensus,
                   consensus_cache, last_cache_update, cache_put_time,
                   advances, faults, workers, calc>>

\* lines 76-96
ReceiveBegin(validator_uid, len, epoch) ==
    /\ frame.pc = "idle"
    /\ calls < MaxCalls
    /\ calls' = calls + 1
    /\ frame' = [pc |-> "loop", validator_uid |-> validator_uid,
                 epoch |-> epoch, len |-> len, i |-> 0, item |-> NoItem,
                 fault |-> "none", processed_count |-> 0,
                 consensus_updated |-> 0, appended |-> 0,
                 touch0 |-> TotalTouch(miner_status)]
    /\ result' = NoResult
    /\ UNCHANGED <<now, validator_reports, miner_status, miner_consensus,
                   consensus_cache, last_cache_update, cache_put_time,
                   advances, faults, workers, calc>>

\* an item without .get: AttributeError at line 98, raised again by the
\* handler at line 123, caught at line 140
ItemNotADict(item) ==
    /\ InLoop
    /\ ~IsDict(item)
    /\ frame' = IdleFrame
    /\ result' = [op |-> "receive", success |-> FALSE,
                  error |-> "AttributeError",
                  validator_uid |-> frame.validator_uid]
    /\ UNCHANGED <<now, validator_reports, miner_status, miner_consensus,
                   consensus_cache, last_cache_update, cache_put_time,
                   advances, calls, faults, workers, calc>>

\* faulty variant: the item is counted before the uid is looked at
ItemSkipNoUid_Counted(item) ==
    /\ InLoop
    /\ IsDict(item)
    /\ ~HasKey(item, "uid")
    /\ frame' = [frame EXCEPT !.i = @ + 1, !.item = item, !.fault = "none",
                              !.processed_count = @ + 1]
    /\ UNCHANGED <<now, validator_reports, miner_status, miner_consensus,
                   consensus_cache, last_cache_update, cache_put_time, result,
                   advances, calls, faults, workers, calc>>

\* lines 98-101
ItemSkipNoUid(item) ==
    /\ InLoop
    /\ IsDict(item)
    /\ ~HasKey(item, "uid")
    /\ frame' = [frame EXCEPT !.i = @ + 1, !.item = item, !.fault = "none"]
    /\ UNCHANGED <<now, validator_reports, miner_status, miner_consensus,
                   consensus_cache, last_cache_update, cache_put_time, result,
                   advances, calls, faults, workers, calc>>

HasUid(item) == IsDict(item) /\ HasKey(item, "uid")

\* lines 104-111
NewReport(item) ==
    ValidatorReport(frame.validator_uid, Get(item, "uid").v, now,
                    frame.epoch, item,
                    _calculate_validator_confidence(frame.validator_uid,
                                                    item, now))

\* faulty variant: the store error ends the loop (no per-item handler)
ItemStoreFails_Aborts(item, fault) ==
    /\ InLoop
    /\ HasUid(item)
    /\ fault \in {"report_set", "touch_set"}
    /\ faults < MaxFaults
    /\ faults' = faults + 1
    /\ LET stored == _store_validator_report(validator_reports, miner_status,
                                             NewReport(item), fault)
       IN  /\ stored.raised
           /\ validator_reports' = stored.validator_reports
           /\ miner_status' = stored.miner_status
    /\ frame' = IdleFrame
    /\ result' = [op |-> "receive", success |-> FALSE,
                  error |-> "StoreError",
                  validator_uid |-> frame.validator_uid]
    /\ UNCHANGED <<now, miner_consensus, consensus_cache, last_cache_update,
                   cache_put_time, advances, calls, workers, calc>>

\* faulty variant: the item is counted although the store raised
ItemStoreFails_Counted(item, fault) ==
    /\ InLoop
    /\ HasUid(item)
    /\ fault \in {"report_set", "touch_set"}
    /\ faults < MaxFaults
    /\ faults' = faults + 1
    /\ LET stored == _store_validator_report(validator_reports, miner_status,
                                             NewReport(item), fault)
       IN  /\ stored.raised
           /\ validator_reports' = stored.validator_reports
           /\ miner_status' = stored.miner_status
           /\ frame' = [frame EXCEPT
                  !.i = @ + 1,
                  !.item = item,
                  !.fault = fault,
                  !.processed_count = @ + 1,
                  !.appended = @ + (IF fault = "touch_set" THEN 1 ELSE 0)]
    /\ UNCHANGED <<now, miner_consensus, consensus_cache, last_cache_update,
                   cache_put_time, result, advances, calls, workers, calc>>

\* lines 104-114 and 122-124: the store raises, the item is dropped
ItemStoreFails(item, fault) ==
    /\ InLoop
    /\ HasUid(item)
    /\ fault \in {"report_set", "touch_set"}
    /\ faults < MaxFaults
    /\ faults' = faults + 1
    /\ LET stored == _store_validator_report(validator_reports, miner_status,
                                             NewReport(item), fault)
       IN  /\ stored.raised
           /\ validator_reports' = stored.validator_reports
           /\ miner_status' = stored.miner_status
           /\ frame' = [frame EXCEPT
                  !.i = @ + 1,
                  !.item = item,
                  !.fault = fault,
                  !.appended = @ + (IF fault = "touch_set" THEN 1 ELSE 0)]
    /\ UNCHANGED <<now, miner_consensus, consensus_cache, last_cache_update,
                   cache_put_time, result, advances, calls, workers, calc>>

\* lines 104-120
ItemProcessed(item, fault, field_order) ==
    /\ InLoop
    /\ HasUid(item)
    /\ fault \in {"none", "query", "consensus_set"}
    /\ fault # "none" => faults < MaxFaults
    /\ fault = "consensus_set" =>
           ~InsufficientReports(_get_recent_miner_reports(
                DocSet(validator_reports, DocId(NewReport(item)),
                       NewReport(item)),
                NewReport(item).miner_uid, now, fault))
    /\ faults' = faults + (IF fault = "none" THEN 0 ELSE 1)
    /\ LET stored == _store_validator_report(validator_reports, miner_status,
                                             NewReport(item), fault)
           upd == _update_miner_consensus(stored.validator_reports,
                      miner_consensus, consensus_cache, cache_put_time,
                      NewReport(item).miner_uid, now, fault, field_order)
       IN  /\ ~stored.raised
           /\ validator_reports' = stored.validator_reports
           /\ miner_status' = stored.miner_status
           /\ miner_consensus' = upd.miner_consensus
           /\ consensus_cache' = upd.consensus_cache
           /\ cache_put_time' = upd.cache_put_time
           /\ frame' = [frame EXCEPT
                  !.i = @ + 1,
                  !.item = item,
                  !.fault = fault,
                  !.consensus_updated = @ + upd.updated,
                  !.processed_count = @ + 1,
                  !.appended = @ + 1]
    /\ UNCHANGED <<now, last_cache_update, result, advances, calls, workers, calc>>

\* lines 126-138, with _update_consensus_cache (lines 465-472)
ReceiveEnd ==
    /\ frame.pc = "loop"
    /\ frame.i = frame.len
    /\ last_cache_update' = now
    /\ result' = [op |-> "receive", success |-> TRUE,
                  miners_processed |-> frame.processed_count,
                  consensus_updated |-> frame.consensus_updated,
                  validator_uid |-> frame.validator_uid,
                  epoch |-> frame.epoch,
                  total |-> frame.len,
                  appended |-> frame.appended,
                  touch0 |-> frame.touch0]
    /\ frame' = IdleFrame
    /\ UNCHANGED <<now, validator_reports, miner_status, miner_consensus,
                   consensus_cache, cache_put_time, advances, calls, faults,
                   workers, calc>>

-----------------------------------------------------------------------------
(* Consensus API *)

\* faulty variant: an age equal to the TTL still counts as fresh
CacheFresh_Inclusive(t, last_update) == t - last_update <= cache_ttl

\* lines 418-419
CacheFresh(t, last_update) == t - last_update < cache_ttl

\* Yields the returned value (found = FALSE for None), the cache and its
\* history.  fault "get" makes the store read at line 424 raise.
get_consensus_miner_status(consensus, cache, put_time, last_update, miner_uid, t, fault) ==
    IF miner_uid \in DOMAIN cache /\ CacheFresh(t, last_update)
    THEN [found |-> TRUE, value |-> cache[miner_uid], from_cache |-> TRUE,
          cached_at |-> put_time[miner_uid],
          consensus_cache |-> cache, cache_put_time |-> put_time]
    ELSE IF fault = "get"
    THEN [found |-> FALSE, value |-> EmptyDict, from_cache |-> FALSE,
          cached_at |-> t,
          consensus_cache |-> cache, cache_put_time |-> put_time]
    ELSE IF miner_uid \in DOMAIN consensus
    THEN [found |-> TRUE, value |-> consensus[miner_uid].consensus_status,
          from_cache |-> FALSE, cached_at |-> t,
          consensus_cache |->
              DocSet(cache, miner_uid, consensus[miner_uid].consensus_status),
          cache_put_time |-> DocSet(put_time, miner_uid, t)]
    ELSE [found |-> FALSE, value |-> EmptyDict, from_cache |-> FALSE,
          cached_at |-> t,
          consensus_cache |-> cache, cache_put_time |-> put_time]

\* faulty variant: a lookup that misses the cache recomputes the consensus
GetConsensus_Recomputes(miner_uid, fault) ==
    /\ frame.pc = "idle"
    /\ fault = "get" =>
           /\ faults < MaxFaults
           /\ ~(miner_uid \in DOMAIN consensus_cache
                  /\ CacheFresh(now, last_cache_update))
    /\ faults' = faults + (IF fault = "none" THEN 0 ELSE 1)
    /\ LET upd == IF miner_uid \in DOMAIN consensus_cache
                       /\ CacheFresh(now, last_cache_update)
                  THEN [miner_consensus |-> miner_consensus,
                        consensus_cache |-> consensus_cache,
                        cache_put_time |-> cache_put_time]
                  ELSE _update_miner_consensus(validator_reports,
                           miner_consensus, consensus_cache, cache_put_time,
                           miner_uid, now, "none", <<"is_serving", "hotkey">>)
           r == get_consensus_miner_status(upd.miner_consensus,
                    upd.consensus_cache, upd.cache_put_time,
                    last_cache_update, miner_uid, now, fault)
       IN  /\ miner_consensus' = upd.miner_consensus
           /\ consensus_cache' = r.consensus_cache
           /\ cache_put_time' = r.cache_put_time
           /\ result' = [op |-> "get", miner_uid |-> miner_uid,
                         found |-> r.found, value |-> r.value,
                         from_cache |-> r.from_cache,
                         cached_at |-> r.cached_at, at |-> now]
    /\ UNCHANGED <<now, validator_reports, miner_status,
                   last_cache_update, frame, advances, calls, workers, calc>>

GetConsensus(miner_uid, fault) ==
    /\ frame.pc = "idle"
    /\ fault = "get" =>
           /\ faults < MaxFaults
           /\ ~(miner_uid \in DOMAIN consensus_cache
                  /\ CacheFresh(now, last_cache_update))
    /\ faults' = faults + (IF fault = "none" THEN 0 ELSE 1)
    /\ LET r == get_consensus_miner_status(miner_consensus, consensus_cache,
                    cache_put_time, last_cache_update, miner_uid, now, fault)
       IN  /\ consensus_cache' = r.consensus_cache
           /\ cache_put_time' = r.cache_put_time
           /\ result' = [op |-> "get", miner_uid |-> miner_uid,
                         found |-> r.found, value |-> r.value,
                         from_cache |-> r.from_cache,
                         cached_at |-> r.cached_at, at |-> now]
    /\ UNCHANGED <<now, validator_reports, miner_status, miner_consensus,
                   last_cache_update, frame, advances, calls, workers, calc>>

\* if miner_uid:
Truthy(miner_uid) == miner_uid # 0

\* one entry of the list built at lines 452-457
ListedStatus(rec) ==
    [k \in DOMAIN rec.consensus_status
           \cup {"miner_uid", "consensus_confidence", "last_consensus"} |->
        IF k = "miner_uid" THEN rec.miner_uid
        ELSE IF k = "consensus_confidence" THEN rec.consensus_confidence
        ELSE IF k = "last_consensus" THEN rec.last_consensus
        ELSE rec.consensus_status[k]]

\* fault "stream" makes the scan at line 444 raise
get_all_consensus_miners(consensus, fault) ==
    IF fault = "stream" THEN <<>>
    ELSE LET listed == AscendingSeq({id \in DOMAIN consensus :
                                        Truthy(consensus[id].miner_uid)})
         IN  [i \in 1..Len(listed) |-> ListedStatus(consensus[listed[i]])]

GetAll(fault) ==
    /\ frame.pc = "idle"
    /\ fault # "none" => faults < MaxFaults
    /\ faults' = faults + (IF fault = "none" THEN 0 ELSE 1)
    /\ result' = [op |-> "list",
                  miners |-> get_all_consensus_miners(miner_consensus, fault),
                  failed |-> fault = "stream"]
    /\ UNCHANGED <<now, validator_reports, miner_status, miner_consensus,
                   consensus_cache, last_cache_update, cache_put_time, frame,
                   advances, calls, workers, calc>>

\* statistics.mean over exact fractions
FracAdd(a, b) == Frac(a[1] * b[2] + b[1] * a[2], a[2] * b[2])

RECURSIVE FracSum(_)
FracSum(fs) == IF fs = <<>> THEN <<0, 1>> ELSE FracAdd(Head(fs), FracSum(Tail(fs)))

FracMean(fs) ==
    IF fs = <<>> THEN <<0, 1>>
    ELSE LET total == FracSum(fs) IN Frac(total[1], total[2] * Len(fs))

\* timedelta(hours=1), line 485
ActiveValidatorsWindow == 60 * 60 * TicksPerSecond

\* fault "stream" makes a scan of the store raise (caught at line 506)
get_validator_report_stats(reports, consensus, t, fault) ==
    IF fault = "stream" THEN EmptyDict
    ELSE LET docs == AscendingSeq(DOMAIN consensus)
             confidence_scores ==
                 [i \in 1..Len(docs) |-> consensus[docs[i]].consensus_confidence]
         IN  [total_validator_reports |-> Cardinality(DOMAIN reports),
              consensus_miners |-> Cardinality(DOMAIN consensus),
              active_validators |->
                  Cardinality({reports[id].validator_uid :
                      id \in {d \in DOMAIN reports :
                                 reports[d].timestamp
                                     >= t - ActiveValidatorsWindow}}),
              average_consensus_confidence |-> FracMean(confidence_scores),
              consensus_timeout_minutes |-> ConsensusTimeoutMinutes,
              min_consensus_validators |-> min_consensus_validators]

GetStats(fault) ==
    /\ frame.pc = "idle"
    /\ fault # "none" => faults < MaxFaults
    /\ faults' = faults + (IF fault = "none" THEN 0 ELSE 1)
    /\ result' = [op |-> "stats",
                  stats |-> get_validator_report_stats(validator_reports,
                                miner_consensus, now, fault),
                  failed |-> fault = "stream"]
    /\ UNCHANGED <<now, validator_reports, miner_status, miner_consensus,
                   consensus_cache, last_cache_update, cache_put_time, frame,
                   advances, calls, workers, calc>>

-----------------------------------------------------------------------------
(* The clock *)

Advance(d) ==
    /\ advances < MaxAdvances
    /\ advances' = advances + 1
    /\ now' = now + d
    /\ UNCHANGED <<validator_reports, miner_status, miner_consensus,
                   consensus_cache, last_cache_update, cache_put_time, frame,
                   result, calls, faults, workers, calc>>

-----------------------------------------------------------------------------
(* One manager, operations run one at a time *)

EmptyColl == <<>>
NoCalc == <<>>

\* __init__, lines 60-74, over an empty store
Init ==
    /\ now = 0
    /\ validator_reports = EmptyColl
    /\ miner_status = EmptyColl
    /\ miner_consensus = EmptyColl
    /\ consensus_cache = EmptyColl
    /\ last_cache_update = 0
    /\ cache_put_time = EmptyColl
    /\ frame = IdleFrame
    /\ result = NoResult
    /\ advances = 0
    /\ calls = 0
    /\ faults = 0
    /\ workers = <<>>
    /\ calc = NoCalc

Next ==
    \/ \E v \in Validators, n \in 0..MaxBatch :
           ReceiveBegin(v, n, EpochOfCall(calls))
    \/ \E it \in Items(frame.validator_uid) : ItemNotADict(it)
    \/ \E it \in Items(frame.validator_uid) : ItemSkipNoUid(it)
    \/ \E it \in Items(frame.validator_uid), f \in StoreFaults :
           ItemStoreFails(it, f)
    \/ \E it \in Items(frame.validator_uid), f \in StoreFaults,
           o \in FieldOrders : ItemProcessed(it, f, o)
    \/ ReceiveEnd
    \/ \E m \in Miners, f \in {"none", "get"} : GetConsensus(m, f)
    \/ \E f \in {"none", "stream"} : GetAll(f)
    \/ \E f \in {"none", "stream"} : GetStats(f)
    \/ \E d \in AdvanceSteps : Advance(d)

Spec == Init /\ [][Next]_vars

-----------------------------------------------------------------------------
(* Concurrent handlers.  _update_miner_consensus holds no lock and runs no   *)
(* transaction between the window query (line 180) and the write (lines     *)
(* 190-200): handlers that run at the same time over one store and one      *)
(* manager (threads, or an asynchronous store client) interleave at these   *)
(* store calls.  Each handler processes a one-item batch.  workers.proc is  *)
(* the position and the locals of each handler; workers.used is history:    *)
(* the window from which the persisted consensus of an entity was computed. *)

Workers == {1, 2}
ConcValidators == {1, 2, 3}

IdleWorker == [pc |-> "idle", miner_uid |-> 0, recent_reports |-> <<>>]

SeqRange(q) == {q[i] : i \in DOMAIN q}

\* lines 104-114: the report is built and stored
ConcStore(w, validator_uid, item) ==
    /\ workers.proc[w].pc = "idle"
    /\ calls < MaxConcCalls
    /\ calls' = calls + 1
    /\ HasUid(item)
    /\ LET report == ValidatorReport(validator_uid, Get(item, "uid").v, now,
                         EpochOfCall(calls), item,
                         _calculate_validator_confidence(validator_uid, item,
                                                         now))
           stored == _store_validator_report(validator_reports, miner_status,
                                             report, "none")
       IN  /\ validator_reports' = stored.validator_reports
           /\ miner_status' = stored.miner_status
           /\ workers' = [workers EXCEPT !.proc[w] =
                  [pc |-> "read", miner_uid |-> report.miner_uid,
                   recent_reports |-> <<>>]]
    /\ UNCHANGED <<now, miner_consensus, consensus_cache, last_cache_update,
                   cache_put_time, frame, result, advances, faults, calc>>

\* lines 180-184; on insufficient data the call ends (line 127)
ConcReadWindow(w) ==
    /\ workers.proc[w].pc = "read"
    /\ LET recent_reports ==
               _get_recent_miner_reports(validator_reports,
                                         workers.proc[w].miner_uid, now, "none")
       IN  IF InsufficientReports(recent_reports)
           THEN /\ workers' = [workers EXCEPT !.proc[w] = IdleWorker]
                /\ last_cache_update' = now
           ELSE /\ workers' = [workers EXCEPT
                       !.proc[w].pc = "write",
                       !.proc[w].recent_reports = recent_reports]
                /\ UNCHANGED last_cache_update
    /\ UNCHANGED <<now, validator_reports, miner_status, miner_consensus,
                   consensus_cache, cache_put_time, frame, result, advances,
                   calls, faults, calc>>

\* lines 187-202, then the end of the call (line 127)
ConcWrite(w, field_order) ==
    /\ workers.proc[w].pc = "write"
    /\ LET miner_uid == workers.proc[w].miner_uid
           recent_reports == workers.proc[w].recent_reports
           consensus_status ==
               _calculate_consensus_status(miner_uid, recent_reports, now,
                                           field_order)
       IN  /\ miner_consensus' =
                  ConsensusSet(miner_consensus, miner_uid,
                         ConsensusRecord(miner_uid, consensus_status, now,
                                         Len(recent_reports)))
           /\ consensus_cache' = DocSet(consensus_cache, miner_uid,
                                        consensus_status)
           /\ cache_put_time' = DocSet(cache_put_time, miner_uid, now)
           /\ workers' = [workers EXCEPT
                  !.proc[w] = IdleWorker,
                  !.used = DocSet(@, miner_uid, SeqRange(recent_reports))]
    /\ last_cache_update' = now
    /\ UNCHANGED <<now, validator_reports, miner_status, frame, result,
                   advances, calls, faults, calc>>

InitConc ==
    /\ now = 0
    /\ validator_reports = EmptyColl
    /\ miner_status = EmptyColl
    /\ miner_consensus = EmptyColl
    /\ consensus_cache = EmptyColl
    /\ last_cache_update = 0
    /\ cache_put_time = EmptyColl
    /\ frame = IdleFrame
    /\ result = NoResult
    /\ advances = 0
    /\ calls = 0
    /\ faults = 0
    /\ workers = [proc |-> [w \in Workers |-> IdleWorker], used |-> EmptyColl]
    /\ calc = NoCalc

NextConc ==
    \/ \E w \in Workers, v \in ConcValidators : \E it \in Items(v) :
           ConcStore(w, v, it)
    \/ \E w \in Workers : ConcReadWindow(w)
    \/ \E w \in Workers, o \in FieldOrders : ConcWrite(w, o)

SpecConc == InitConc /\ [][NextConc]_vars

-----------------------------------------------------------------------------
(* The calculator and the scorer on their own.  calc holds one input and    *)
(* the outputs computed from it so far:                                      *)
(*   kind "status": a window of reports of entity CalcMiner, as            *)
(*     _get_recent_miner_reports returns it, given twice to                  *)
(*     _calculate_consensus_status; field_order is the iteration order of   *)
(*     the set all_fields in the running process, which follows the hash    *)
(*     seed of the process and changes when the server is restarted;        *)
(*   kind "average": a values list and a weights list given to              *)
(*     _weighted_average;                                                    *)
(*   kind "score": a payload given to _calculate_validator_confidence.      *)

MaxCalcReports == 3

CalcMiner == 1
CalcNow == 2 * TicksPerSecond

PayloadC(u) == <<<<"uid", IntV(u)>>, <<"hotkey", StrV("hkC")>>,
                 <<"stake", IntV(100)>>, <<"is_serving", BoolV(FALSE)>>,
                 <<"performance_score", IntV(7)>>,
                 <<"task_type_specialization", StrV("transcription")>>>>
PayloadD(u) == <<<<"uid", IntV(u)>>, <<"is_serving", BoolV(TRUE)>>>>
PayloadE(u) == <<<<"uid", IntV(u)>>>>
PayloadF(u) == <<<<"uid", IntV(u)>>, <<"hotkey", StrV("hkC")>>,
                 <<"is_serving", BoolV(FALSE)>>>>

CalcPayloads == {PayloadA(CalcMiner), PayloadB(CalcMiner),
                 PayloadC(CalcMiner), PayloadD(CalcMiner),
                 PayloadE(CalcMiner), PayloadF(CalcMiner)}

\* a validator and the time of its report, one report to the second;
\* validator 1 may have a third report
CalcSlots == (ConcValidators \X {0, TicksPerSecond})
             \cup {<<1, 2 * TicksPerSecond>>}

\* the reports that receive_validator_report makes of the payloads, in the
\* order in which the window query streams them
CalcWindow(f) ==
    LET made == [sl \in DOMAIN f |->
                    ValidatorReport(sl[1], CalcMiner, sl[2], 1, f[sl],
                        _calculate_validator_confidence(sl[1], f[sl], sl[2]))]
        stored == [id \in {DocId(made[sl]) : sl \in DOMAIN f} |->
                      made[CHOOSE sl \in DOMAIN f : DocId(made[sl]) = id]]
    IN  _get_recent_miner_reports(stored, CalcMiner, CalcNow, "none")

CalcStatusInputs ==
    {[kind |-> "status", reports |-> CalcWindow(f), field_order |-> o,
      restarted |-> FALSE, out |-> <<>>] :
        f \in UNION {[S -> CalcPayloads] :
                        S \in {T \in SUBSET CalcSlots :
                                  Cardinality(T) \in
                                      min_consensus_validators..MaxCalcReports}},
        o \in FieldOrders}

CalcNumbers == {IntV(100), IntV(120)}
CalcWeights == {0, 50, 100}

CalcAverageInputs ==
    {[kind |-> "average", values |-> vs, weights |-> ws, out |-> <<>>] :
        <<vs, ws>> \in UNION {[1..n -> CalcNumbers] \X [1..n -> CalcWeights] :
                                 n \in 1..MaxCalcReports}}

\* every required and detailed field, with a last_seen of the given value
PayloadFull(last_seen) ==
    PayloadC(CalcMiner) \o <<<<"current_load", IntV(3)>>,
                             <<"last_seen", last_seen>>>>

CalcScorePayloads ==
    {EmptyDict, PayloadA(CalcMiner), PayloadB(CalcMiner), PayloadC(CalcMiner),
     PayloadD(CalcMiner), PayloadNoUid,
     <<<<"last_seen", StrV("yesterday")>>>>,
     <<<<"last_seen", TimeV(0)>>>>,
     PayloadFull(TimeV(CalcNow)), PayloadFull(StrV("yesterday")),
     PayloadFull(IntV(0))}

CalcScoreInputs ==
    {[kind |-> "score", payload |-> d, out |-> <<>>] : d \in CalcScorePayloads}

\* one call of _calculate_consensus_status on the window
CalcStatus ==
    /\ calc.kind = "status"
    /\ Len(calc.out) < 2
    /\ calc' = [calc EXCEPT !.out = Append(@,
                   _calculate_consensus_status(CalcMiner, calc.reports, now,
                                               calc.field_order))]
    /\ UNCHANGED <<now, validator_reports, miner_status, miner_consensus,
                   consensus_cache, last_cache_update, cache_put_time, frame,
                   result, advances, calls, faults, workers>>

\* the server process is restarted between two calculations
CalcRestart(field_order) ==
    /\ calc.kind = "status"
    /\ Len(calc.out) = 1
    /\ ~calc.restarted
    /\ calc' = [calc EXCEPT !.field_order = field_order, !.restarted = TRUE]
    /\ UNCHANGED <<now, validator_reports, miner_status, miner_consensus,
                   consensus_cache, last_cache_update, cache_put_time, frame,
                   result, advances, calls, faults, workers>>

CalcAverage ==
    /\ calc.kind = "average"
    /\ calc.out = <<>>
    /\ calc' = [calc EXCEPT !.out =
                   <<_weighted_average(calc.values, calc.weights)>>]
    /\ UNCHANGED <<now, validator_reports, miner_status, miner_consensus,
                   consensus_cache, last_cache_update, cache_put_time, frame,
                   result, advances, calls, faults, workers>>

CalcScore ==
    /\ calc.kind = "score"
    /\ calc.out = <<>>
    /\ calc' = [calc EXCEPT !.out =
                   <<_calculate_validator_confidence(1, calc.payload, now)>>]
    /\ UNCHANGED <<now, validator_reports, miner_status, miner_consensus,
                   consensus_cache, last_cache_update, cache_put_time, frame,
                   result, advances, calls, faults, workers>>

InitCalc ==
    /\ now = CalcNow
    /\ validator_reports = EmptyColl
    /\ miner_status = EmptyColl
    /\ miner_consensus = EmptyColl
    /\ consensus_cache = EmptyColl
    /\ last_cache_update = 0
    /\ cache_put_time = EmptyColl
    /\ frame = IdleFrame
    /\ result = NoResult
    /\ advances = 0
    /\ calls = 0
    /\ faults = 0
    /\ workers = <<>>
    /\ calc \in CalcStatusInputs \cup CalcAverageInputs \cup CalcScoreInputs

NextCalc ==
    \/ CalcStatus
    \/ \E o \in FieldOrders : CalcRestart(o)
    \/ CalcAverage
    \/ CalcScore

SpecCalc == InitCalc /\ [][NextCalc]_vars

-----------------------------------------------------------------------------
(* Longer runs of one manager on one entity: every call of                   *)
(* receive_validator_report carries a single item and no store call fails,   *)
(* so that a call is one step and runs of several calls with the clock       *)
(* moving between them stay small.                                           *)

MaxSeqCalls == 3
MaxSeqAdvances == 2

\* a stake that is not a number
PayloadBad(u) == <<<<"uid", IntV(u)>>, <<"hotkey", StrV("hkA")>>,
                   <<"stake", StrV("n/a")>>, <<"is_serving", BoolV(TRUE)>>>>

SeqPayloads == {PayloadA(CalcMiner), PayloadB(CalcMiner), PayloadBad(CalcMiner)}

\* one second, and just beyond the recency window
SeqAdvanceSteps == {TicksPerSecond, consensus_timeout + 1}

\* receive_validator_report(validator_uid, [item], epoch), lines 88-138
SeqReceive(validator_uid, item, field_order) ==
    /\ calls < MaxSeqCalls
    /\ calls' = calls + 1
    /\ LET report == ValidatorReport(validator_uid, Get(item, "uid").v, now,
                         EpochOfCall(calls), item,
                         _calculate_validator_confidence(validator_uid, item,
                                                         now))
           stored == _store_validator_report(validator_reports, miner_status,
                                             report, "none")
           upd == _update_miner_consensus(stored.validator_reports,
                      miner_consensus, consensus_cache, cache_put_time,
                      report.miner_uid, now, "none", field_order)
       IN  /\ validator_reports' = stored.validator_reports
           /\ miner_status' = stored.miner_status
           /\ miner_consensus' = upd.miner_consensus
           /\ consensus_cache' = upd.consensus_cache
           /\ cache_put_time' = upd.cache_put_time
           /\ result' = [op |-> "receive", success |-> TRUE,
                         miners_processed |-> 1,
                         consensus_updated |-> upd.updated,
                         validator_uid |-> validator_uid,
                         epoch |-> EpochOfCall(calls),
                         total |-> 1, appended |-> 1,
                         touch0 |-> TotalTouch(miner_status)]
    /\ last_cache_update' = now
    /\ UNCHANGED <<now, frame, advances, faults, workers, calc>>

SeqAdvance(d) ==
    /\ advances < MaxSeqAdvances
    /\ advances' = advances + 1
    /\ now' = now + d
    /\ UNCHANGED <<validator_reports, miner_status, miner_consensus,
                   consensus_cache, last_cache_update, cache_put_time, frame,
                   result, calls, faults, workers, calc>>

NextSeq ==
    \/ \E v \in Validators, it \in SeqPayloads, o \in FieldOrders :
           SeqReceive(v, it, o)
    \/ \E d \in SeqAdvanceSteps : SeqAdvance(d)
    \/ GetConsensus(CalcMiner, "none")

SpecSeq == Init /\ [][NextSeq]_vars

-----------------------------------------------------------------------------
(* Properties *)

ReportsOf(m) ==
    {id \in DOMAIN validator_reports : validator_reports[id].miner_uid = m}

\* the validators that have a report on entity m in the store
ValidatorsOf(m) == {validator_reports[id].validator_uid : id \in ReportsOf(m)}

\* C1: a consensus is persisted or cached for an entity only if at least
\* min_consensus_validators distinct validators have reported on it, and
\* get_consensus_miner_status returns no value for an entity on which a
\* single validator has reported.
C1_ConsensusNeedsDistinctValidators ==
    /\ \A m \in DOMAIN miner_consensus \cup DOMAIN consensus_cache :
           Cardinality(ValidatorsOf(m)) >= min_consensus_validators
    /\ (result.op = "get"
            /\ Cardinality(ValidatorsOf(result.miner_uid))
                   < min_consensus_validators)
           => ~result.found

\* a loop iteration of receive_validator_report: it consumed one item
ItemStep == frame.pc = "loop" /\ frame'.pc = "loop" /\ frame'.i = frame.i + 1

\* the iteration reached _update_miner_consensus (line 117 returned)
RecomputeStep == ItemStep /\ frame'.processed_count = frame.processed_count + 1

ItemUid(fr) == Get(fr.item, "uid").v

\* the stored reports of entity m that a window ending at t holds
WindowOf(reports, m, t) ==
    {id \in DOMAIN reports :
        /\ reports[id].miner_uid = m
        /\ reports[id].timestamp >= t - ConsensusTimeoutMinutes * 60 * TicksPerSecond}

SameAt(f, g, k) ==
    /\ k \in DOMAIN f <=> k \in DOMAIN g
    /\ k \in DOMAIN f => f[k] = g[k]

\* C2: a recomputation that finds fewer than min_consensus_validators
\* reports in the window leaves the entity's consensus record and cache
\* entry as they were and adds nothing to consensus_updated.
C2_InsufficientWritesNothing ==
    [][(RecomputeStep
          /\ Cardinality(WindowOf(validator_reports', ItemUid(frame'), now))
                 < min_consensus_validators)
       => /\ SameAt(miner_consensus, miner_consensus', ItemUid(frame'))
          /\ SameAt(consensus_cache, consensus_cache', ItemUid(frame'))
          /\ frame'.consensus_updated = frame.consensus_updated]_vars

\* C2 witness: an entity that has a consensus record was just recomputed on
\* a window holding a single report, the earlier ones having aged out.
C2_Witness ==
    /\ frame.pc = "loop" /\ frame.i >= 1 /\ frame.fault = "none"
    /\ HasUid(frame.item)
    /\ ItemUid(frame) \in DOMAIN miner_consensus
    /\ miner_status[ItemUid(frame)].last_updated = now
    /\ Cardinality(WindowOf(validator_reports, ItemUid(frame), now)) = 1
    /\ Cardinality(ReportsOf(ItemUid(frame))) > 1
    /\ miner_consensus[ItemUid(frame)].last_consensus < now

\* the report that the iteration just made of its item
ReportOfStep ==
    [validator_uid |-> frame.validator_uid, miner_uid |-> ItemUid(frame'),
     timestamp |-> now, epoch |-> frame.epoch, miner_status |-> frame'.item]

StoredByStep ==
    \E id \in DOMAIN validator_reports' :
        LET r == validator_reports'[id]
        IN  [validator_uid |-> r.validator_uid, miner_uid |-> r.miner_uid,
             timestamp |-> r.timestamp, epoch |-> r.epoch,
             miner_status |-> r.miner_status] = ReportOfStep

\* C4: a missing uid or a store error on one item does not end the loop,
\* and every item that has a uid and whose store call raises nothing is
\* stored, counted, and has its entity's consensus recomputed.
C4_FailureDoesNotAbortBatch ==
    [][/\ (frame.pc = "loop" /\ frame.i < frame.len /\ frame' # frame
              /\ frame'.pc # "loop")
          => (result'.op = "receive" /\ ~result'.success
                 /\ result'.error = "AttributeError")
       /\ (ItemStep /\ HasUid(frame'.item)
              /\ frame'.fault \notin {"report_set", "touch_set"})
          => /\ StoredByStep
             /\ frame'.processed_count = frame.processed_count + 1
             /\ (frame'.fault = "none"
                    /\ Cardinality(WindowOf(validator_reports',
                                            ItemUid(frame'), now))
                           >= min_consensus_validators)
                => /\ ItemUid(frame') \in DOMAIN miner_consensus'
                   /\ miner_consensus'[ItemUid(frame')].last_consensus = now
                   /\ miner_consensus'[ItemUid(frame')].validator_reports_count
                          = Cardinality(WindowOf(validator_reports',
                                                 ItemUid(frame'), now))
                   /\ frame'.consensus_updated = frame.consensus_updated + 1
      ]_vars

\* C4 witness: the first item of a batch hit a store error and the second
\* item was stored and counted.
C4_Witness ==
    /\ frame.pc = "loop" /\ frame.i = 2
    /\ calls = 1 /\ result.op = "none"
    /\ faults = 1 /\ frame.fault = "none"
    /\ HasUid(frame.item)
    /\ frame.processed_count = 1
    /\ frame.appended = 2
    /\ ItemUid(frame) \in DOMAIN miner_status

\* C5 as stated: receive_validator_report returns the summary or the error
\* result, and miners_processed is the number of items whose report was
\* written to validator_reports.
C5_ProcessedEqualsAppended ==
    result.op = "receive"
        => IF result.success
           THEN result.miners_processed = result.appended
           ELSE DOMAIN result = {"op", "success", "error", "validator_uid"}

\* C5 amended: miners_processed is the number of items for which both the
\* report and the last-touch record were written, which is the growth of
\* the last-touch counters during the call.
C5_ProcessedEqualsStored ==
    result.op = "receive"
        => IF result.success
           THEN /\ {"miners_processed", "consensus_updated", "validator_uid",
                    "epoch"} \subseteq DOMAIN result
                /\ result.miners_processed
                       = TotalTouch(miner_status) - result.touch0
           ELSE {"error", "validator_uid"} \subseteq DOMAIN result

\* C5 witness: a summary of a call in which a report was written but its
\* last-touch update raised, next to an item that was processed.
C5_Witness ==
    /\ result.op = "receive" /\ result.success
    /\ result.miners_processed = 1
    /\ result.appended = 2

\* C6: an item without uid changes neither the store nor the cache nor the
\* counters, and the loop goes on to the next item.
C6_NoUidSkipped ==
    [][(frame.pc = "loop" /\ frame'.pc = "loop" /\ frame'.i # frame.i
          /\ IsDict(frame'.item) /\ ~HasKey(frame'.item, "uid"))
       => /\ UNCHANGED <<validator_reports, miner_status, miner_consensus,
                         consensus_cache, cache_put_time>>
          /\ frame'.i = frame.i + 1
          /\ frame'.processed_count = frame.processed_count
          /\ frame'.consensus_updated = frame.consensus_updated]_vars

\* C6 witness: the item after a skipped one was processed.
C6_Witness ==
    /\ frame.pc = "loop" /\ frame.i = 2
    /\ faults = 0
    /\ HasUid(frame.item)
    /\ frame.processed_count = 1
    /\ frame.appended = 1

\* C7: no step changes or removes a stored report, and every successful
\* write of a report adds a document to validator_reports.
C7_ReportsNeverReplaced ==
    [][/\ \A id \in DOMAIN validator_reports :
              /\ id \in DOMAIN validator_reports'
              /\ validator_reports'[id] = validator_reports[id]
       /\ (ItemStep /\ frame'.appended = frame.appended + 1)
          => Cardinality(DOMAIN validator_reports')
                 = Cardinality(DOMAIN validator_reports) + 1]_vars

\* C8: a value served from the cache was put into the cache, for that
\* entity, at most the TTL before the read.
C8_ServedEntryWithinTtl ==
    (result.op = "get" /\ result.from_cache)
        => result.at - result.cached_at <= CacheTtlMinutes * 60 * TicksPerSecond

\* a step of get_consensus_miner_status
GetStep ==
    /\ result'.op = "get"
    /\ result' # result \/ consensus_cache' # consensus_cache
           \/ cache_put_time' # cache_put_time
           \/ miner_consensus' # miner_consensus

\* C9: get_consensus_miner_status leaves the three collections of the
\* store unchanged and touches no cache entry but the queried one.
C9_GetDoesNotRecompute ==
    [][GetStep
       => /\ UNCHANGED <<validator_reports, miner_status, miner_consensus>>
          /\ \A m \in (DOMAIN consensus_cache \cup DOMAIN consensus_cache')
                         \ {result'.miner_uid} :
                 SameAt(consensus_cache, consensus_cache', m)]_vars

\* C9 witness: a lookup went to the store, found the record and returned it,
\* for an entity whose window would by now give no consensus.
C9_Witness ==
    /\ result.op = "get" /\ result.found /\ ~result.from_cache
    /\ result.at = now
    /\ Cardinality(WindowOf(validator_reports, result.miner_uid, now)) = 0

\* C10: get_all_consensus_miners returns one record for every entity that
\* has a consensus record, entity 0 included.
C10_ListsEveryEntity ==
    (result.op = "list" /\ ~result.failed)
        => /\ {result.miners[i]["miner_uid"] : i \in DOMAIN result.miners}
                  = DOMAIN miner_consensus
           /\ Len(result.miners) = Cardinality(DOMAIN miner_consensus)

\* C3: a consensus is never overwritten by one computed from a window that
\* is a strict subset of the window of the consensus it replaces.
C3_NoLostUpdate ==
    [][\A m \in DOMAIN workers.used :
           ~(/\ workers'.used[m] # workers.used[m]
             /\ workers'.used[m] \subseteq workers.used[m])]_vars

\* the consensus records whose consensus_status the calculator filled
Computed(consensus) ==
    {m \in DOMAIN consensus :
        "consensus_confidence" \in DOMAIN consensus[m].consensus_status}

\* C11: the confidence persisted with a consensus record, the confidence of
\* the entity in the list of get_all_consensus_miners and the average
\* reported by get_validator_report_stats are the whole-record confidence
\* that the calculator computed (and the mean of these over all records).
C11_PersistedConfidenceIsComputed ==
    /\ \A m \in Computed(miner_consensus) :
           miner_consensus[m].consensus_confidence
               = miner_consensus[m].consensus_status["consensus_confidence"]
    /\ (result.op = "list" /\ ~result.failed)
           => \A i \in DOMAIN result.miners :
                  LET m == result.miners[i]["miner_uid"]
                  IN  m \in Computed(miner_consensus)
                          => result.miners[i]["consensus_confidence"]
                                 = miner_consensus[m].consensus_status[
                                       "consensus_confidence"]
    /\ (result.op = "stats" /\ ~result.failed
            /\ Computed(miner_consensus) = DOMAIN miner_consensus)
           => LET docs == AscendingSeq(DOMAIN miner_consensus)
              IN  result.stats.average_consensus_confidence
                      = FracMean([i \in 1..Len(docs) |->
                            miner_consensus[docs[i]].consensus_status[
                                "consensus_confidence"]])

\* C12: a recomputation uses exactly the stored reports of the entity that
\* are no older than the window, whichever validator made them: with
\* enough of them the consensus is computed from all of them and from no
\* other, and an entity whose earlier reports have all aged out gets no
\* consensus from one new report, like an entity reported for the first time.
C12_WindowIsRecentReports ==
    [][(RecomputeStep /\ frame'.fault = "none")
       => LET m == ItemUid(frame')
              W == WindowOf(validator_reports', m, now)
          IN  IF Cardinality(W) >= min_consensus_validators
              THEN /\ m \in DOMAIN miner_consensus'
                   /\ miner_consensus'[m].last_consensus = now
                   /\ miner_consensus'[m].validator_reports_count
                          = Cardinality(W)
                   /\ LET cv == miner_consensus'[m].consensus_status[
                                    "consensus_validators"]
                      IN  {cv[i] : i \in DOMAIN cv}
                              = {validator_reports'[id].validator_uid : id \in W}
                   /\ frame'.consensus_updated = frame.consensus_updated + 1
              ELSE /\ SameAt(miner_consensus, miner_consensus', m)
                   /\ SameAt(consensus_cache, consensus_cache', m)
                   /\ frame'.consensus_updated = frame.consensus_updated]_vars

\* C12 witness: an entity without consensus was just recomputed; it has an
\* earlier report of another validator, which has aged out of the window.
C12_Witness ==
    /\ frame.pc = "loop" /\ frame.i >= 1 /\ frame.fault = "none"
    /\ HasUid(frame.item)
    /\ frame.processed_count >= 1
    /\ miner_status[ItemUid(frame)].last_updated = now
    /\ Cardinality(ValidatorsOf(ItemUid(frame))) = 2
    /\ Cardinality(WindowOf(validator_reports, ItemUid(frame), now)) = 1
    /\ ItemUid(frame) \notin DOMAIN miner_consensus

\* C13: two calculations on the same window give the same fields, the same
\* contributing validators, the same confidence and the same sequence of
\* conflicts; only consensus_timestamp may differ.
C13_CalculationRepeatable ==
    (calc # NoCalc /\ calc.kind = "status" /\ Len(calc.out) = 2)
        => /\ DOMAIN calc.out[1] = DOMAIN calc.out[2]
           /\ \A k \in DOMAIN calc.out[1] \ {"consensus_timestamp"} :
                  calc.out[1][k] = calc.out[2][k]

\* the outputs of _calculate_consensus_status computed so far
StatusOutputs ==
    IF calc # NoCalc /\ calc.kind = "status"
    THEN {calc.out[i] : i \in DOMAIN calc.out} ELSE {}

\* the reports of the window that include the field
Including(fld) ==
    {i \in DOMAIN calc.reports : HasKey(calc.reports[i].miner_status, fld)}

ValueIn(i, fld) == Get(calc.reports[i].miner_status, fld)

\* the fields of the given class that some report of the window includes
FieldsIn(class) == {fld \in class : Including(fld) # {}}

\* the summed confidence of the reports that include the field
TotalWeight(fld) ==
    SumSeq([i \in DOMAIN calc.reports |->
               IF i \in Including(fld)
               THEN calc.reports[i].confidence_score ELSE 0])

\* the summed confidence of the reports whose field has the value
WeightOf(fld, val) ==
    SumSeq([i \in DOMAIN calc.reports |->
               IF i \in Including(fld) /\ ValueIn(i, fld) = val
               THEN calc.reports[i].confidence_score ELSE 0])

HasMajority(fld, val) == WeightOf(fld, val) * 10 >= TotalWeight(fld) * 6

ConflictFields(out) ==
    {out["conflicts_detected"][i][1] : i \in DOMAIN out["conflicts_detected"]}

\* C14: a categorical field one of whose values carries at least 60% of the
\* weight of the reports that include the field gets that value, and no
\* conflict is recorded for the field.
C14_MajorityValueWins ==
    \A out \in StatusOutputs : \A fld \in FieldsIn(categorical_fields) :
        \A i \in Including(fld) :
            HasMajority(fld, ValueIn(i, fld))
                => /\ out[fld] = ValueIn(i, fld)
                   /\ fld \notin ConflictFields(out)

\* C14 witness: the reports disagree on a categorical field, one value has
\* between 60% and 70% of the weight and is the consensus, and the first
\* report that includes the field has another value.
C14_Witness ==
    \E out \in StatusOutputs : \E fld \in FieldsIn(categorical_fields) :
        /\ HasMajority(fld, out[fld])
        /\ WeightOf(fld, out[fld]) * 10 < TotalWeight(fld) * 7
        /\ fld \notin ConflictFields(out)
        /\ \E i \in Including(fld) :
               /\ \A j \in Including(fld) : i <= j
               /\ ValueIn(i, fld) # out[fld]

FirstIncluding(fld) == CHOOSE i \in Including(fld) : \A j \in Including(fld) : i <= j

NoMajority(fld) ==
    \A i \in Including(fld) : ~HasMajority(fld, ValueIn(i, fld))

\* C15: for a categorical field none of whose values carries 60% of the
\* weight, a consensus is still produced, the conflict (field,
\* "no_majority") is recorded and the value is that of the first report of
\* the window that includes the field.
C15_NoMajorityRecorded ==
    \A out \in StatusOutputs : \A fld \in FieldsIn(categorical_fields) :
        NoMajority(fld)
            => /\ out # EmptyDict
               /\ \E k \in DOMAIN out["conflicts_detected"] :
                      out["conflicts_detected"][k]
                          = <<fld, StrV("no_majority")>>
               /\ out[fld] = ValueIn(FirstIncluding(fld), fld)

\* the fields that are neither numeric nor categorical
DefaultFields ==
    {fld \in AllFields(calc.reports) :
        fld \notin numeric_fields \cup categorical_fields}

\* the reports that include the field and whose confidence is at least 80%
\* of the highest confidence among the reports that include the field
HighConfidence(fld) ==
    {i \in Including(fld) :
        \A j \in Including(fld) :
            calc.reports[i].confidence_score * 10
                >= calc.reports[j].confidence_score * 8}

MostRecent(S) ==
    {i \in S : \A j \in S :
        calc.reports[j].timestamp <= calc.reports[i].timestamp}

\* C16: the consensus value of a field that is neither numeric nor
\* categorical is the value of that field in the most recent of the
\* high-confidence reports that include the field.
C16_DefaultFieldFromMostRecent ==
    \A out \in StatusOutputs : \A fld \in DefaultFields :
        out[fld] \in {ValueIn(i, fld) : i \in MostRecent(HighConfidence(fld))}

\* the fraction fr equals n / d
IsRatio(fr, n, d) == fr[1] * d = fr[2] * n

\* sum of value * confidence over the reports that include the field
WeightedSum(fld) ==
    SumSeq([i \in DOMAIN calc.reports |->
               IF i \in Including(fld)
               THEN ValueIn(i, fld).v * calc.reports[i].confidence_score
               ELSE 0])

AverageDone == calc # NoCalc /\ calc.kind = "average" /\ calc.out # <<>>

\* C17: the consensus value of a numeric field is
\* sum(value * confidence) / sum(confidence) over the reports that include
\* the field, and _weighted_average gives sum(v * w) / sum(w) for weights
\* that do not sum to zero: (100, 1.0) and (120, 0.5) give 160 / 1.5.
C17_NumericWeightedAverage ==
    /\ \A out \in StatusOutputs : \A fld \in FieldsIn(numeric_fields) :
           /\ out[fld].t = "float"
           /\ IsRatio(out[fld].v, WeightedSum(fld), TotalWeight(fld))
    /\ (AverageDone /\ SumSeq(calc.weights) > 0)
           => IsRatio(calc.out[1],
                      SumSeq([i \in DOMAIN calc.values |->
                                 calc.values[i].v * calc.weights[i]]),
                      SumSeq(calc.weights))
    /\ (AverageDone /\ calc.values = <<IntV(100), IntV(120)>>
            /\ calc.weights = <<100, 50>>)
           => IsRatio(calc.out[1], 160 * 100, 150)

\* C17 witness: a numeric field that one report of the window lacks and on
\* which two reports of different confidence differ.
C17_Witness ==
    \E out \in StatusOutputs : \E fld \in FieldsIn(numeric_fields) :
        /\ Including(fld) # DOMAIN calc.reports
        /\ \E i, j \in Including(fld) :
               /\ ValueIn(i, fld) # ValueIn(j, fld)
               /\ calc.reports[i].confidence_score
                      # calc.reports[j].confidence_score
        /\ out[fld].v[2] > 1

\* C18: when the weights sum to zero, _weighted_average gives the plain
\* arithmetic mean of the values.
C18_ZeroWeightsGiveMean ==
    (AverageDone /\ SumSeq(calc.weights) = 0)
        => IsRatio(calc.out[1],
                   SumSeq([i \in DOMAIN calc.values |-> calc.values[i].v]),
                   Len(calc.values))

\* C18 witness: the mean of differing values under zero weights.
C18_Witness ==
    /\ AverageDone
    /\ SumSeq(calc.weights) = 0
    /\ Len(calc.values) = 3
    /\ \E i, j \in DOMAIN calc.values : calc.values[i] # calc.values[j]
    /\ calc.out[1][2] = 3

ScoreDone == calc # NoCalc /\ calc.kind = "score" /\ calc.out # <<>>

\* the payload without its last_seen entry
RECURSIVE WithoutLastSeen(_)
WithoutLastSeen(d) ==
    IF d = <<>> THEN <<>>
    ELSE (IF Head(d)[1] = "last_seen" THEN <<>> ELSE <<Head(d)>>)
         \o WithoutLastSeen(Tail(d))

Unparsable(d) == HasKey(d, "last_seen") /\ Get(d, "last_seen").t # "isotime"

\* C19: the confidence of a report lies in [0.1, 1.0] whatever the payload,
\* and a last_seen that cannot be parsed still gives a score, the one the
\* payload has without last_seen.
C19_ReportConfidenceInRange ==
    ScoreDone
        => /\ calc.out[1] >= 10 /\ calc.out[1] <= 100
           /\ Unparsable(calc.payload)
                  => calc.out[1] = _calculate_validator_confidence(1,
                                       WithoutLastSeen(calc.payload), now)

\* C19 witness: every required and detailed field with a last_seen that
\* cannot be parsed: 1.15 before the clamp, 1.0 after it.
C19_Witness ==
    /\ ScoreDone
    /\ calc.payload = PayloadFull(StrV("yesterday"))
    /\ calc.out = <<100>>

\* the number of distinct validators of the window
DistinctValidators ==
    Cardinality({calc.reports[i].validator_uid : i \in DOMAIN calc.reports})

ConfidenceSum ==
    SumSeq([i \in DOMAIN calc.reports |-> calc.reports[i].confidence_score])

\* C20: the whole-record confidence is the mean confidence of the reports
\* plus min(0.2, 0.1 * distinct validators), clamped to [0, 1].
C20_OverallConfidence ==
    \A out \in StatusOutputs :
        LET conf == out["consensus_confidence"]
            n == Len(calc.reports)
            bonus == IF DistinctValidators * 10 < 20
                     THEN DistinctValidators * 10 ELSE 20
            raw == ConfidenceSum + bonus * n
            clamped == IF raw > 100 * n THEN 100 * n
                       ELSE IF raw < 0 THEN 0 ELSE raw
        IN  /\ IsRatio(conf, clamped, n)
            /\ conf[1] >= 0 /\ conf[1] <= 100 * conf[2]

\* C20 witness: three validators with mean confidence 0.7, where the bonus
\* is held at 0.2 and the result stays below 1.
C20_Witness ==
    \E out \in StatusOutputs :
        /\ DistinctValidators = 3
        /\ ConfidenceSum = 70 * Len(calc.reports)
        /\ out["consensus_confidence"] = <<90, 1>>

\* C21: with one manager running its operations one after the other, the
\* cache entry of an entity is the consensus_status persisted for the entity.
C21_CacheEqualsPersisted ==
    \A m \in DOMAIN consensus_cache :
        /\ m \in DOMAIN miner_consensus
        /\ consensus_cache[m] = miner_consensus[m].consensus_status

\* C22: get_consensus_miner_status serves the cache entry exactly when the
\* entity has one and less than the TTL has passed since last_cache_update;
\* otherwise, the store read succeeding, it returns and caches the persisted
\* consensus_status, or returns no value when the entity has no record.
C22_CacheOrStore ==
    [][GetStep
       => LET m == result'.miner_uid
              hit == /\ m \in DOMAIN consensus_cache
                     /\ now - last_cache_update
                            < CacheTtlMinutes * 60 * TicksPerSecond
          IN  /\ result'.from_cache <=> hit
              /\ hit => /\ result'.found
                        /\ result'.value = consensus_cache[m]
                        /\ UNCHANGED consensus_cache
              /\ (~hit /\ faults' = faults)
                 => IF m \in DOMAIN miner_consensus
                    THEN /\ result'.found
                         /\ result'.value = miner_consensus[m].consensus_status
                         /\ m \in DOMAIN consensus_cache'
                         /\ consensus_cache'[m] = result'.value
                    ELSE /\ ~result'.found
                         /\ UNCHANGED consensus_cache]_vars

\* C22 witness: the entity has a cache entry put there earlier, the TTL has
\* passed since the last refresh, and the lookup went to the store.
C22_Witness ==
    /\ result.op = "get" /\ result.found /\ ~result.from_cache
    /\ result.at = now
    /\ now - last_cache_update >= CacheTtlMinutes * 60 * TicksPerSecond
    /\ miner_consensus[result.miner_uid].last_consensus < now
    /\ last_cache_update >= miner_consensus[result.miner_uid].last_consensus

\* what a lookup returns for an entity that has no consensus record
NoConsensusResult(m, t) ==
    [op |-> "get", miner_uid |-> m, found |-> FALSE, value |-> EmptyDict,
     from_cache |-> FALSE, cached_at |-> t, at |-> t]

\* C23: a store failure is surfaced to the caller of the failing step: an
\* append that fails leaves the item uncounted, a window query that fails
\* does not hand its caller the empty window of an entity without reports
\* ('insufficient data'), and a lookup whose store read fails does not
\* return what it returns when no consensus exists.
C23_StoreFailureSurfaced ==
    [][/\ (ItemStep /\ frame'.fault \in {"report_set", "touch_set"})
          => frame'.processed_count = frame.processed_count
       /\ (ItemStep /\ frame'.fault = "query")
          => LET w == _get_recent_miner_reports(validator_reports',
                          ItemUid(frame'), now, frame'.fault)
             IN  w # <<>> /\ ~InsufficientReports(w)
       /\ (GetStep /\ faults' = faults + 1)
          => result' # NoConsensusResult(result'.miner_uid, now)]_vars

\* C24: the contributing validators of a consensus are exactly the distinct
\* validator ids of the reports of the window, each listed once.
C24_ContributingValidators ==
    \A out \in StatusOutputs :
        LET cv == out["consensus_validators"]
        IN  /\ {cv[i] : i \in DOMAIN cv}
                   = {calc.reports[i].validator_uid : i \in DOMAIN calc.reports}
            /\ \A i, j \in DOMAIN cv : i # j => cv[i] # cv[j]

\* C24 witness: a window of three reports, two of them of one validator,
\* with two contributing validators.
C24_Witness ==
    \E out \in StatusOutputs :
        /\ Len(calc.reports) = 3
        /\ \E i, j \in DOMAIN calc.reports :
               /\ i # j
               /\ calc.reports[i].validator_uid = calc.reports[j].validator_uid
        /\ Len(out["consensus_validators"]) = 2

\* the epochs a caller may supply
EpochValues == {1, 2}

\* the reports with the epochs replaced
WithEpochs(reports, e) ==
    [i \in DOMAIN reports |-> [reports[i] EXCEPT !.epoch = e[i]]]

\* the window that the query returns when the store holds the given reports
WindowFrom(reports) ==
    _get_recent_miner_reports(
        [id \in {DocId(reports[i]) : i \in DOMAIN reports} |->
            reports[CHOOSE i \in DOMAIN reports : DocId(reports[i]) = id]],
        CalcMiner, now, "none")

\* a calculation has been made with the field order of the running process
StatusDone ==
    /\ calc # NoCalc /\ calc.kind = "status"
    /\ Len(calc.out) = 2 \/ (Len(calc.out) = 1 /\ ~calc.restarted)

\* C25: the epoch is informational: whatever epochs the reports carry, the
\* window holds the same reports in the same order and the calculation
\* gives the same fields, validators, confidence and conflicts.
C25_EpochInformational ==
    StatusDone
        => \A e \in [DOMAIN calc.reports -> EpochValues] :
               LET window == WindowFrom(WithEpochs(calc.reports, e))
               IN  /\ window = WithEpochs(calc.reports, e)
                   /\ _calculate_consensus_status(CalcMiner, window, now,
                                                  calc.field_order)
                          = calc.out[Len(calc.out)]

\* C25 witness: a calculation on a window where no value of hotkey has a
\* majority, so that the value depends on the order of the reports.
C25_Witness ==
    /\ StatusDone
    /\ Len(calc.reports) = 3
    /\ "hotkey" \in ConflictFields(calc.out[Len(calc.out)])
    /\ calc.out[Len(calc.out)]["hotkey"] = StrV("hkB")

\* the reports with the same validators and confidences and one payload
Agreeing(reports) ==
    [i \in DOMAIN reports |->
        [reports[i] EXCEPT !.miner_status = PayloadD(CalcMiner)]]

\* C26: the whole-record confidence does not depend on the conflicts: the
\* reports of the window and reports of the same validators with the same
\* confidences that agree on every field get the same confidence.
C26_ConfidenceIgnoresConflicts ==
    StatusDone
        => LET calm == _calculate_consensus_status(CalcMiner,
                           Agreeing(calc.reports), now, calc.field_order)
           IN  /\ calm["conflicts_detected"] = <<>>
               /\ calm["consensus_confidence"]
                      = calc.out[Len(calc.out)]["consensus_confidence"]

\* C26 witness: a calculation that records two conflicts and a confidence
\* below 1.
C26_Witness ==
    /\ StatusDone
    /\ Len(calc.out[Len(calc.out)]["conflicts_detected"]) = 2
    /\ calc.out[Len(calc.out)]["consensus_confidence"] = <<290, 3>>

\* a call of receive_validator_report with one item has returned
SeqCallStep == calls' = calls + 1 /\ result'.op = "receive"

\* C27: when the field-consensus computation fails on the window of the
\* entity, the persisted consensus record and the cache entry of the
\* entity stay as they were, no empty consensus is written and the item
\* adds 0 to consensus_updated.
C27_FailedCalculationWritesNothing ==
    [][(/\ SeqCallStep
        /\ LET w == _get_recent_miner_reports(validator_reports', CalcMiner,
                                              now, "none")
           IN  ~InsufficientReports(w) /\ CalcRaises(w))
       => /\ UNCHANGED <<miner_consensus, consensus_cache>>
          /\ result'.consensus_updated = 0
          /\ \A m \in DOMAIN miner_consensus' :
                 miner_consensus'[m].consensus_status # EmptyDict]_vars

\* C28: in every success summary 0 <= consensus_updated <= miners_processed
\* <= number of items of the batch, whatever earlier calls have counted;
\* during the loop the same holds of the counters and the items read so far.
C28_CountersOfThisCall ==
    /\ frame.pc = "loop"
           => /\ 0 <= frame.consensus_updated
              /\ frame.consensus_updated <= frame.processed_count
              /\ frame.processed_count <= frame.i
              /\ frame.i <= frame.len
    /\ (result.op = "receive" /\ result.success)
           => /\ 0 <= result.consensus_updated
              /\ result.consensus_updated <= result.miners_processed
              /\ result.miners_processed <= result.total

\* C28 witness: the summary of a second call with one item, processed and
\* leading to a consensus, after a first call that processed two items.
C28_Witness ==
    /\ result.op = "receive" /\ result.success
    /\ calls = 2
    /\ result.touch0 = 2
    /\ result.total = 1
    /\ result.miners_processed = 1
    /\ result.consensus_updated = 1

\* the window of entity m as a recomputation made now would read it
WindowNow(m) == _get_recent_miner_reports(validator_reports, m, now, "none")

\* C29: every stored report has a positive weight, so for every entity and
\* every field that a report of its window includes, the weights of the
\* reports that include the field sum to more than zero.
C29_WeightsPositive ==
    /\ \A id \in DOMAIN validator_reports :
           validator_reports[id].confidence_score > 0
    /\ \A m \in Miners : \A fld \in AllFields(WindowNow(m)) :
           /\ FieldWeights(WindowNow(m), fld) # <<>>
           /\ SumSeq(FieldWeights(WindowNow(m), fld)) > 0

\* C29 witness: a consensus has been computed on a window of two reports,
\* one of them with a payload that lacks is_serving.
C29_Witness ==
    \E m \in DOMAIN miner_consensus :
        /\ miner_consensus[m].last_consensus = now
        /\ Len(WindowNow(m)) = 2
        /\ Len(FieldWeights(WindowNow(m), "is_serving")) = 1
        /\ SumSeq(FieldWeights(WindowNow(m), "hotkey")) = 190

\* the values of the field that carry at least 60% of its weight
MajorityValues(fld) ==
    {ValueIn(i, fld) : i \in {j \in Including(fld) :
                                 HasMajority(fld, ValueIn(j, fld))}}

\* _majority_vote on the reports that include the field, taken in order p
VoteInOrder(fld, p) ==
    LET vs == FieldValues(calc.reports, fld)
        ws == FieldWeights(calc.reports, fld)
    IN  _majority_vote([i \in DOMAIN vs |-> vs[p[i]]],
                       [i \in DOMAIN ws |-> ws[p[i]]])

\* C30: at most one value of a categorical field reaches 60% of the
\* weight, and when one does, _majority_vote returns that value and no
\* conflict for every permutation of the reports.
C30_MajorityOrderIndependent ==
    StatusDone
        => \A fld \in FieldsIn(categorical_fields) :
               /\ Cardinality(MajorityValues(fld)) <= 1
               /\ \A val \in MajorityValues(fld) :
                      /\ calc.out[Len(calc.out)][fld] = val
                      /\ \A p \in Permutations(
                                    DOMAIN FieldValues(calc.reports, fld)) :
                             VoteInOrder(fld, p) = <<val, FALSE>>

\* C30 witness: three reports include a categorical field, the first of
\* them with a value of more than 30% of the weight, the two others with
\* the value that has the majority and is the consensus.
C30_Witness ==
    /\ StatusDone
    /\ \E fld \in FieldsIn(categorical_fields) :
           /\ Cardinality(Including(fld)) = 3
           /\ MajorityValues(fld) = {calc.out[Len(calc.out)][fld]}
           /\ ValueIn(FirstIncluding(fld), fld) \notin MajorityValues(fld)
           /\ WeightOf(fld, ValueIn(FirstIncluding(fld), fld)) * 10
                  >= TotalWeight(fld) * 3

====
